---- MODULE Spec2Model ----
(***************************************************************************)
(* wav-tools: a WAV multi-tone generator (wav-generator.c), a WAV          *)
(* frequency analyzer (wav-analyzer.c) and their shared helpers            *)
(* (wav-lib.c, wav-lib.h).                                                 *)
(*                                                                         *)
(* Values of C type "unsigned int" / uint32_t whose wrap-around matters    *)
(* are kept at their 32-bit width.  TLC's integers stop at 2^31 - 1, so a  *)
(* 32-bit word is the pair <<hi, lo>> of its two 16-bit halves             *)
(* (value = hi * 2^16 + lo) and the arithmetic below works on the halves.  *)
(* Counts that index loops (channels, freqs_per_chan, positions) are       *)
(* plain naturals.                                                         *)
(***************************************************************************)
EXTENDS Integers, Sequences, FiniteSets, TLC

VARIABLES
    p_pc,       \* planner run: "call" before fill_desired_freqs, "done" after
    p_wav,      \* planner run: the struct audio handed to fill_desired_freqs
    p_freqs,    \* planner run: the freqs matrix (calloc'ed by the caller)
    p_ret,      \* planner run: fill_desired_freqs' return value
    cfreqs,     \* analyzer: per channel, the MAX_FREQS_PER_CHAN-slot buffer of
                \* detected frequencies (alloc_matrix, zeroed)
    ncfreqs,    \* analyzer: per channel, the number of entries in use
    add_log,    \* the last add_freq_to_list call: its frequency, the count it
                \* found, and whether it printed "Maximum number ... reached"
    l_calls,    \* list run: add_freq_to_list calls made so far
    a_pc,       \* analyzer: the statement of main to run next
    a_file,     \* analyzer: the file on its standard input
    a_wav,      \* analyzer: main's struct audio
    a_data_sz,  \* analyzer: main's size_t data_sz
    a_heap,     \* analyzer: its heap
    thresholds, \* analyzer: per channel, the largest threshold used
    a_c,        \* analyzer: main's c in the scan loop
    a_i,        \* analyzer: main's i in the scan loop
    a_nwin,     \* analyzer: per channel, the windows scanned so far
    efreqs,     \* analyzer: the matrix of expected frequencies
    a_out,      \* analyzer: the report lines printed on standard output
    a_ret,      \* analyzer: main's ret
    a_exit,     \* analyzer: whether main returned, and its value
    g_pc,       \* generator: the statement of main to run next
    g_wav,      \* generator: main's struct audio
    g_freqs,    \* generator: the matrix of planned frequencies
    g_c,        \* generator: main's c (not initialised until the wave loop)
    g_heap,     \* generator: its heap
    g_ret,      \* generator: main's ret
    g_exit      \* generator: whether main returned, and its value

plannerVars == <<p_pc, p_wav, p_freqs, p_ret>>

listVars == <<cfreqs, ncfreqs, add_log>>

analyzerVars ==
    <<a_pc, a_file, a_wav, a_data_sz, a_heap, thresholds, a_c, a_i, a_nwin,
      efreqs, a_out, a_ret, a_exit>>

generatorVars == <<g_pc, g_wav, g_freqs, g_c, g_heap, g_ret, g_exit>>

vars == <<plannerVars, listVars, l_calls, analyzerVars, generatorVars>>

(***************************************************************************)
(* 32-bit unsigned arithmetic.                                             *)
(***************************************************************************)
Half == 2^16

\* The word of a natural n < 2^31.
U32(n) == <<n \div Half, n % Half>>

\* The natural a word stands for, when it is below 2^31.
Val(a) == a[1] * Half + a[2]

FitsNat(a) == a[1] < 2^15

UINT_MAX == <<Half - 1, Half - 1>>

Zero32 == <<0, 0>>

U32Add(a, b) ==
    LET lo == a[2] + b[2]
        hi == a[1] + b[1] + (lo \div Half)
    IN  <<hi % Half, lo % Half>>

U32Sub(a, b) ==
    LET lo == a[2] - b[2]
        hi == a[1] - b[1] - (IF lo < 0 THEN 1 ELSE 0)
    IN  <<hi % Half, lo % Half>>

U32Lt(a, b) == a[1] < b[1] \/ (a[1] = b[1] /\ a[2] < b[2])

U32Le(a, b) == a = b \/ U32Lt(a, b)

\* a * k mod 2^32 for a natural k < 2^15.
U32MulSmall(a, k) ==
    LET lo == a[2] * k
        hi == a[1] * k + (lo \div Half)
    IN  <<hi % Half, lo % Half>>

\* a * b mod 2^32: b is taken a byte at a time.
U32Mul(a, b) ==
    LET b0 == b[2] % 256
        b1 == b[2] \div 256
        b2 == b[1] % 256
        b3 == b[1] \div 256
        Shl8(x) == U32MulSmall(x, 256)
    IN  U32Add(U32MulSmall(a, b0),
          Shl8(U32Add(U32MulSmall(a, b1),
            Shl8(U32Add(U32MulSmall(a, b2),
              Shl8(U32MulSmall(a, b3)))))))

\* Quotient and remainder of a word by a natural 0 < d < 2^23, a byte of the
\* dividend at a time (the running remainder times 256 stays below 2^31).
DivModSmall(a, d) ==
    LET n3 == a[1] \div 256
        n2 == a[1] % 256
        n1 == a[2] \div 256
        n0 == a[2] % 256
        q3 == n3 \div d
        r3 == n3 % d
        t2 == r3 * 256 + n2
        q2 == t2 \div d
        r2 == t2 % d
        t1 == r2 * 256 + n1
        q1 == t1 \div d
        r1 == t1 % d
        t0 == r1 * 256 + n0
        q0 == t0 \div d
        r0 == t0 % d
    IN  [quot |-> <<(q3 * 256 + q2) % Half, q1 * 256 + q0>>, rem |-> U32(r0)]

\* Quotient of a word by a word b >= 2^23: it is at most a.hi / b.hi <= 511,
\* and is the largest k with k * b <= a (the product taken without wrap).
DivBig(a, b) ==
    LET LeProd(k) ==
            LET lo == k * b[2]
                hi == k * b[1] + (lo \div Half)
            IN  hi < a[1] \/ (hi = a[1] /\ lo % Half <= a[2])
        qh == a[1] \div b[1]
    IN  CHOOSE k \in 0..qh : LeProd(k) /\ (k = qh \/ ~LeProd(k + 1))

IsSmall(b) == b[1] < 128

\* C's a / b and a % b on unsigned int, b # 0.
U32Div(a, b) ==
    IF IsSmall(b) THEN DivModSmall(a, Val(b)).quot ELSE U32(DivBig(a, b))

U32Mod(a, b) ==
    IF IsSmall(b) THEN DivModSmall(a, Val(b)).rem
    ELSE U32Sub(a, U32Mul(b, U32(DivBig(a, b))))

(***************************************************************************)
(* wav-lib.h                                                               *)
(***************************************************************************)
MIN_FREQ == 200

MIN_DURATION == 3

(***************************************************************************)
(* wav-lib.c: fill_desired_freqs                                           *)
(***************************************************************************)
\* delta_f = ((wav->sample_rate / 2) - MIN_FREQ) / wav->freqs_per_chan
DeltaF(wav) ==
    U32Div(U32Sub(U32Div(wav.sample_rate, U32(2)), U32(MIN_FREQ)),
           U32(wav.freqs_per_chan))

DeltaC_NoDivide(delta_f, wav) == delta_f

\* delta_c = delta_f / (wav->channels + 1)
DeltaC(delta_f, wav) == U32Div(delta_f, U32(wav.channels + 1))

\* freqs[c][i] = (MIN_FREQ + i * delta_f) + c * delta_c
DesiredFreq(c, i, delta_f, delta_c) ==
    U32Add(U32Add(U32(MIN_FREQ), U32Mul(U32(i), delta_f)),
           U32Mul(U32(c), delta_c))

\* A calloc'ed narrays x nentries matrix of unsigned int.
ZeroMatrix(narrays, nentries) ==
    [c \in 0..(narrays - 1) |-> [i \in 0..(nentries - 1) |-> Zero32]]

\* The call: its return value and the matrix it leaves behind.
fill_desired_freqs(freqs, wav) ==
    LET delta_f == DeltaF(wav)
        delta_c == DeltaC(delta_f, wav)
    IN  IF delta_f = Zero32 \/ delta_c = Zero32
        THEN [ret |-> -1, freqs |-> freqs]
        ELSE [ret |-> 0,
              freqs |-> [c \in 0..(wav.channels - 1) |->
                          [i \in 0..(wav.freqs_per_chan - 1) |->
                              DesiredFreq(c, i, delta_f, delta_c)]]]

(***************************************************************************)
(* wav-analyzer.c: the detected-frequency list                             *)
(***************************************************************************)
MAX_FREQS_PER_CHAN == 64

FREQ_ACCURACY == 1

\* f1 <= (f2 + accuracy) && f1 >= (f2 - accuracy), on unsigned int
freqs_are_equal(f1, f2, accuracy) ==
    /\ U32Le(f1, U32Add(f2, U32(accuracy)))
    /\ U32Le(U32Sub(f2, U32(accuracy)), f1)

\* The loop over i < MAX_FREQS_PER_CHAN that stops at i == nfreqs.
freq_is_listed(freqs, nfreqs, frequency) ==
    \E i \in 0..(MAX_FREQS_PER_CHAN - 1) :
        /\ i < nfreqs
        /\ freqs_are_equal(frequency, freqs[i], FREQ_ACCURACY)

\* if (*nfreqs + 1 >= MAX_FREQS_PER_CHAN)
ListIsFull(nfreqs) == nfreqs + 1 >= MAX_FREQS_PER_CHAN

\* The call: the buffer and count it leaves, and whether it took the
\* "Maximum number of detected frequencies reached" return.
add_freq_to_list(freqs, nfreqs, frequency) ==
    IF ListIsFull(nfreqs)
    THEN [freqs |-> freqs, nfreqs |-> nfreqs, full |-> TRUE]
    ELSE IF ~freq_is_listed(freqs, nfreqs, frequency)
         THEN [freqs |-> [freqs EXCEPT ![nfreqs] = frequency],
               nfreqs |-> nfreqs + 1, full |-> FALSE]
         ELSE [freqs |-> freqs, nfreqs |-> nfreqs, full |-> FALSE]

NoAdd == [called |-> FALSE]

\* add_freq_to_list(cfreqs[c], &ncfreqs[c], frequency) on the analyzer's state.
AddToChannel(c, frequency) ==
    LET r == add_freq_to_list(cfreqs[c], ncfreqs[c], frequency)
    IN  /\ cfreqs' = [cfreqs EXCEPT ![c] = r.freqs]
        /\ ncfreqs' = [ncfreqs EXCEPT ![c] = r.nfreqs]
        /\ add_log' = [called |-> TRUE, chan |-> c, frequency |-> frequency,
                       before |-> ncfreqs[c], listed |-> freq_is_listed(cfreqs[c], ncfreqs[c], frequency),
                       full |-> r.full]

(***************************************************************************)
(* wav-analyzer.c: next_pow_2                                              *)
(***************************************************************************)
\* val & (1 << i)
Bit(val, i) ==
    IF i >= 16 THEN (val[1] \div 2^(i - 16)) % 2 ELSE (val[2] \div 2^i) % 2

\* 1 << k as a 32-bit word, 0 <= k <= 31
Shl1(k) == IF k >= 16 THEN <<2^(k - 16), 0>> ELSE <<0, 2^k>>

\* The highest i in 30..0 with bit i of val set; -1 when the loop runs out.
TopBit(val) ==
    LET S == {i \in 0..30 : Bit(val, i) = 1}
    IN  IF S = {} THEN -1 ELSE CHOOSE i \in S : \A j \in S : j <= i

next_pow_2(val) ==
    IF Bit(val, 31) = 1 THEN Shl1(31) ELSE Shl1(TopBit(val) + 1)

(***************************************************************************)
(* wav-analyzer.c: extract_frequencies, after the transform.               *)
(*                                                                         *)
(* The Hann window and gsl_fft_real_radix2_transform are floating-point    *)
(* library code; the model starts from the power[] array they produce.     *)
(* A spectrum is a function from the few bins that carry power to their    *)
(* power; every other bin holds 0.  Powers are even naturals, so that      *)
(* maximum / 2 is exact.                                                   *)
(***************************************************************************)
POWER_NOISE_LEVEL == 5

Power(spectrum, i) == IF i \in DOMAIN spectrum THEN spectrum[i] ELSE 0

\* i = (MIN_FREQ * size / wav->sample_rate), the first bin both loops read
FirstBin(size, wav) ==
    U32Div(U32Mul(U32(MIN_FREQ), size), wav.sample_rate)

\* power_len = size / 2 + 1
PowerLen(size) == Val(U32Div(size, U32(2))) + 1

\* The bins i with FirstBin <= i < power_len - 1.
ScannedBins(size, wav) ==
    LET first == FirstBin(size, wav)
    IN  IF FitsNat(first) THEN Val(first)..(PowerLen(size) - 2) ELSE {}

\* maximum: the largest power over the scanned bins, 0 when there is none
Maximum(spectrum, size, wav) ==
    LET P == {Power(spectrum, i) : i \in ScannedBins(size, wav)} \cup {0}
    IN  CHOOSE m \in P : \A q \in P : q <= m

\* frequency = wav->sample_rate * local_max_idx / size
BinFrequency(idx, size, wav) ==
    U32Div(U32Mul(wav.sample_rate, U32(idx)), size)

\* The first bin from i on that carries power, the end of the loop when
\* there is none.  With above false, the turns of the loop on the bins in
\* between leave above, local_max and local_max_idx as they are.
SkipEmpty(spectrum, i, power_len) ==
    LET later == {b \in DOMAIN spectrum : b >= i /\ b < power_len - 1}
    IN  IF later = {}
        THEN IF i > power_len - 1 THEN i ELSE power_len - 1
        ELSE CHOOSE b \in later : \A q \in later : b <= q

\* The second loop from bin i on, with its running above / local_max /
\* local_max_idx: the values of local_max_idx at which it computes a
\* frequency and calls add_freq_to_list, in order.
RECURSIVE ReadPeaks(_, _, _, _, _, _, _)
ReadPeaks(spectrum, i, power_len, threshold, above, local_max, local_max_idx) ==
    IF i >= power_len - 1
    THEN <<>>
    ELSE IF Power(spectrum, i) > threshold
         THEN IF Power(spectrum, i) > local_max
              THEN ReadPeaks(spectrum, i + 1, power_len, threshold, TRUE,
                             Power(spectrum, i), i)
              ELSE ReadPeaks(spectrum, i + 1, power_len, threshold, TRUE,
                             local_max, local_max_idx)
         ELSE IF above
              THEN <<local_max_idx>> \o
                   ReadPeaks(spectrum, i + 1, power_len, threshold, FALSE,
                             0, local_max_idx)
              ELSE ReadPeaks(spectrum,
                             SkipEmpty(spectrum, i + 1, power_len),
                             power_len, threshold, FALSE, 0, local_max_idx)

\* The frequencies of the peaks read, in order.
PeakFrequencies(peaks, size, wav) ==
    [k \in 1..Len(peaks) |-> BinFrequency(peaks[k], size, wav)]

\* add_freq_to_list for each frequency of found, in order.
RECURSIVE AddAll(_, _, _)
AddAll(freqs, nfreqs, found) ==
    IF found = <<>>
    THEN [freqs |-> freqs, nfreqs |-> nfreqs]
    ELSE LET r == add_freq_to_list(freqs, nfreqs, Head(found))
         IN  AddAll(r.freqs, r.nfreqs, Tail(found))

\* extract_frequencies storing every threshold it uses in *max_thresh, with
\* no comparison to the value already there.
extract_frequencies_LastThreshold(freqs, nfreqs, spectrum, size, max_thresh, wav) ==
    LET maximum == Maximum(spectrum, size, wav)
        threshold == maximum \div 2
    IN  IF threshold < POWER_NOISE_LEVEL
        THEN [freqs |-> freqs, nfreqs |-> nfreqs, max_thresh |-> max_thresh]
        ELSE LET peaks == ReadPeaks(spectrum, Val(FirstBin(size, wav)),
                                    PowerLen(size), threshold, FALSE, 0, 0)
                 found == PeakFrequencies(peaks, size, wav)
                 r == AddAll(freqs, nfreqs, found)
             IN  [freqs |-> r.freqs, nfreqs |-> r.nfreqs,
                  max_thresh |-> threshold]

\* The call on one window: the list, the count and *max_thresh afterwards.
extract_frequencies(freqs, nfreqs, spectrum, size, max_thresh, wav) ==
    LET maximum == Maximum(spectrum, size, wav)
        threshold == maximum \div 2
    IN  IF threshold < POWER_NOISE_LEVEL
        THEN [freqs |-> freqs, nfreqs |-> nfreqs, max_thresh |-> max_thresh]
        ELSE LET peaks == ReadPeaks(spectrum, Val(FirstBin(size, wav)),
                                    PowerLen(size), threshold, FALSE, 0, 0)
                 found == PeakFrequencies(peaks, size, wav)
                 r == AddAll(freqs, nfreqs, found)
             IN  [freqs |-> r.freqs, nfreqs |-> r.nfreqs,
                  max_thresh |-> IF threshold > max_thresh
                                 THEN threshold ELSE max_thresh]

(***************************************************************************)
(* wav-analyzer.c: extract_audio_parameters                                *)
(***************************************************************************)
\* An int holding -1.
MinusOne == UINT_MAX

\* The value of struct audio before the header is decoded (main's
\* initialiser, then parse_args).
BlankAudio(freqs_per_chan) ==
    [channels |-> 0, sample_rate |-> Zero32, bits_per_sample |-> 0,
     duration_s |-> Zero32, freqs_per_chan |-> freqs_per_chan,
     samples_per_chan |-> Zero32]

\* The call: its int result (a 32-bit pattern; -1 on failure) and the
\* struct audio it leaves behind.  data_sz is an int holding the header's
\* uint32_t chunk_size; % and / with an unsigned operand are unsigned.
extract_audio_parameters(wav_format, wav) ==
    LET data_sz == wav_format.chunk_size
        w1 == [wav EXCEPT !.channels = wav_format.channels,
                          !.sample_rate = wav_format.samples_per_sec]
        w2 == [w1 EXCEPT !.bits_per_sample = wav_format.bits_per_sample]
        samples == U32Div(U32Div(data_sz, U32(w2.channels)),
                          U32(w2.bits_per_sample \div 8))
        w3 == [w2 EXCEPT !.samples_per_chan = samples]
        w4 == [w3 EXCEPT !.duration_s = U32Div(samples, w3.sample_rate)]
    IN  IF \/ w1.channels = 0
           \/ w1.sample_rate = Zero32
           \/ data_sz = Zero32
           \/ U32Mod(data_sz, U32(w1.channels)) # Zero32
        THEN [ret |-> MinusOne, wav |-> w1]
        ELSE IF w2.bits_per_sample \notin {32, 24, 16}
             THEN [ret |-> MinusOne, wav |-> w2]
             ELSE IF U32Lt(w4.duration_s, U32(MIN_DURATION))
                  THEN [ret |-> MinusOne, wav |-> w4]
                  ELSE [ret |-> data_sz, wav |-> w4]

\* size_t data_sz = <int result>: the int sign-extended to 64 bits, as its
\* upper and lower 32-bit words.
SizeOfInt(r) ==
    [upper |-> IF r[1] >= 2^15 THEN UINT_MAX ELSE Zero32, lower |-> r]

\* data_sz <= 0 on a size_t
SizeIsZero(sz) == sz.upper = Zero32 /\ sz.lower = Zero32

(***************************************************************************)
(* wav-analyzer.c: main's comparison of computed and expected frequencies  *)
(***************************************************************************)
\* int diff = cfreqs[c][i] - efreqs[c][i]
Diff(cf, ef, i) == U32Sub(cf[i], ef[i])

\* The lines printed for expected frequency i and after, with the running
\* found count; ends with the count.
RECURSIVE ExpectedLines(_, _, _, _, _, _)
ExpectedLines(cf, ncf, ef, nef, i, found) ==
    IF i >= nef
    THEN [lines |-> <<>>, found |-> found]
    ELSE LET is_listed == freq_is_listed(cf, ncf, ef[i])
             line == IF ~is_listed
                     THEN [kind |-> "expected", i |-> i, freq |-> ef[i],
                           ok |-> FALSE, diff |-> Zero32]
                     ELSE [kind |-> "expected", i |-> i, freq |-> ef[i],
                           ok |-> TRUE, diff |-> Diff(cf, ef, i)]
             rest == ExpectedLines(cf, ncf, ef, nef, i + 1,
                                   IF is_listed THEN found + 1 ELSE found)
         IN  [lines |-> <<line>> \o rest.lines, found |-> rest.found]

\* The "spurious" lines for detected entry i and after.
RECURSIVE SpuriousLines(_, _, _, _, _)
SpuriousLines(cf, ncf, ef, nef, i) ==
    IF i >= ncf
    THEN <<>>
    ELSE (IF ~freq_is_listed(ef, nef, cf[i])
          THEN <<[kind |-> "spurious", freq |-> cf[i]]>>
          ELSE <<>>) \o SpuriousLines(cf, ncf, ef, nef, i + 1)

\* if (found < ncfreqs[c])
SpuriousAreListed(found, ncf) == found < ncf

\* What the loop body prints for one channel.
CompareChannel(cf, ncf, ef, nef) ==
    LET e == ExpectedLines(cf, ncf, ef, nef, 0, 0)
    IN  e.lines \o
        (IF SpuriousAreListed(e.found, ncf)
         THEN SpuriousLines(cf, ncf, ef, nef, 0)
         ELSE <<>>)

\* What main prints for one channel when no comparison was asked for.
RECURSIVE FoundLines(_, _, _)
FoundLines(cf, ncf, i) ==
    IF i >= ncf
    THEN <<>>
    ELSE <<[kind |-> "found", freq |-> cf[i]]>> \o FoundLines(cf, ncf, i + 1)

(***************************************************************************)
(* The heap of a process: the blocks malloc/calloc returned and free has   *)
(* not yet released, and the free() calls that released nothing (a block   *)
(* freed twice, or a pointer read from outside a pointer array).           *)
(* A block is <<owner, row>>; row -1 is a plain buffer or the pointer      *)
(* array of a matrix.                                                      *)
(***************************************************************************)
EmptyHeap == [live |-> {}, bad |-> {}]

Alloc(h, blocks) == [h EXCEPT !.live = @ \cup blocks]

Free(h, blocks) ==
    [live |-> h.live \ blocks, bad |-> h.bad \cup (blocks \ h.live)]

Rows(owner, n) == {<<owner, i>> : i \in 0..(n - 1)}

\* wav-lib.c free_array(array, n): free(array[i]) for i < n
free_array(h, owner, n) == Free(h, Rows(owner, n))

\* wav-lib.c alloc_matrix(narrays, ...), when the calloc of the pointer array
\* fails (fail_at = -1), when calloc of row fail_at fails, or when no calloc
\* fails (fail_at = narrays): the heap afterwards and whether it returned a
\* matrix.
alloc_matrix(h, owner, narrays, fail_at) ==
    IF fail_at < 0
    THEN [heap |-> h, ok |-> FALSE]
    ELSE IF fail_at < narrays
         THEN LET h1 == Alloc(h, {<<owner, -1>>} \cup Rows(owner, fail_at))
              IN  [heap |-> Free(free_array(h1, owner, fail_at),
                                 {<<owner, -1>>}),
                   ok |-> FALSE]
         ELSE [heap |-> Alloc(h, {<<owner, -1>>} \cup Rows(owner, narrays)),
               ok |-> TRUE]

(***************************************************************************)
(* wav-generator.c: parse_args, the header and the data written            *)
(***************************************************************************)
DEFAULT_NCHANS == 2

DEFAULT_BPS == 32

DEFAULT_NFREQS == 4

\* parse_args on the options -c -r -b -d -f with the int values of args
\* (an option left out is given as its default): the result and the
\* struct audio it leaves behind.
gen_parse_args(args) ==
    LET w == [channels |-> args.c, sample_rate |-> U32(args.r),
              bits_per_sample |-> args.b, duration_s |-> U32(args.d),
              freqs_per_chan |-> args.f, samples_per_chan |-> Zero32]
    IN  IF \E v \in {args.c, args.r, args.b, args.d, args.f} : v <= 0
        THEN [ret |-> -1, wav |-> w]
        ELSE IF U32Lt(w.sample_rate, U32(2 * MIN_FREQ))
        THEN [ret |-> -1, wav |-> w]
        ELSE IF w.bits_per_sample # 16 /\ w.bits_per_sample # 32
        THEN [ret |-> -1, wav |-> w]
        ELSE IF U32Lt(w.duration_s, U32(MIN_DURATION))
        THEN [ret |-> -1, wav |-> w]
        ELSE [ret |-> 0,
              wav |-> [w EXCEPT !.samples_per_chan =
                                    U32Mul(w.sample_rate, w.duration_s)]]

\* data_sz = wav.channels * wav.samples_per_chan * wav.bits_per_sample / 8
GenDataSz(w) ==
    U32Div(U32Mul(U32Mul(U32(w.channels), w.samples_per_chan),
                  U32(w.bits_per_sample)), U32(8))

\* The struct wav_format main fills in and writes (channels and
\* bits_per_sample are uint16_t fields).
GenHeader(w) ==
    [channels |-> w.channels % Half,
     samples_per_sec |-> w.sample_rate,
     bits_per_sample |-> w.bits_per_sample % Half,
     chunk_size |-> GenDataSz(w)]

(***************************************************************************)
(* The file on the analyzer's standard input.                              *)
(*                                                                         *)
(* state:   "pending" while the generator feeding the pipe has not exited, *)
(*          "short" when fewer bytes than a RIFF header arrive, else "ok"  *)
(* hdr:     the struct wav_format of the header                            *)
(* data:    "full" when at least chunk_size bytes follow the header        *)
(* content: per channel, the power spectra the transform yields on the     *)
(*          successive windows of the decoded channel, repeating with      *)
(*          period ContentPeriod                                           *)
(***************************************************************************)
ContentPeriod == 2

\* The power of a tone that stands out of the noise (threshold 20 >= 5).
TonePower == 40

NoHeader == [channels |-> 0, samples_per_sec |-> Zero32,
             bits_per_sample |-> 0, chunk_size |-> Zero32]

PendingFile ==
    [state |-> "pending", hdr |-> NoHeader, data |-> "short", content |-> <<>>]

ShortFile ==
    [state |-> "short", hdr |-> NoHeader, data |-> "short", content |-> <<>>]

\* The analyzer's window geometry (main, lines 350-352).
Offset(w) == U32Div(w.sample_rate, U32(2))

Slide(w) == next_pow_2(U32Div(w.sample_rate, U32(2)))

WindowsSz(w) == U32MulSmall(Slide(w), 2)

\* The bins the analyzer scans on a file with this header.
HeaderBins(hdr) ==
    IF hdr.samples_per_sec = Zero32
    THEN {}
    ELSE LET w == [sample_rate |-> hdr.samples_per_sec]
         IN  ScannedBins(WindowsSz(w), w)

\* The bin nearest to frequency f in a window of size samples.
NearestBin(f, size, sample_rate) ==
    (2 * Val(f) * Val(size) + Val(sample_rate)) \div (2 * Val(sample_rate))

\* The spectrum of a window holding the steady tones of one generated
\* channel: one peak at the bin nearest to each tone.
IdealSpectrum(tones, size, sample_rate) ==
    [b \in {NearestBin(tones[i], size, sample_rate) : i \in DOMAIN tones}
        |-> TonePower]

\* Spectra with peaks of TonePower at the bins B.
PeaksAt(B) == [b \in B |-> TonePower]

\* The subsets of S with at most n elements.
RECURSIVE SubsetsUpTo(_, _)
SubsetsUpTo(S, n) ==
    IF n = 0
    THEN {{}}
    ELSE LET R == SubsetsUpTo(S, n - 1)
         IN  R \cup {r \cup {x} : r \in R, x \in S}

\* Every content of nchan channels with at most ntones peaks in all.
Contents(nchan, bins, ntones) ==
    LET Slots == (0..(nchan - 1)) \X (1..ContentPeriod) \X bins
        Picks == SubsetsUpTo(Slots, ntones)
    IN  {[c \in 0..(nchan - 1) |->
            [k \in 1..ContentPeriod |->
                PeaksAt({b \in bins : <<c, k, b>> \in P})]] : P \in Picks}

\* Powers under, at and over the noise floor (thresholds 4, 5 and 20).
PowerLevels == {8, 10, 40}

\* Every content whose windows hold one peak at bin, of any of PowerLevels,
\* the same in every channel.
LevelContents(nchan, bin) ==
    LET spectra == {[b \in {bin} |-> p] : p \in PowerLevels}
    IN  {[c \in 0..(nchan - 1) |-> seq] :
            seq \in [1..ContentPeriod -> spectra]}

\* The spectrum of the k-th window (k = 0, 1, ...) of channel c.
WindowSpectrum(file, c, k) == file.content[c][(k % ContentPeriod) + 1]

\* The option values of the generator runs.
GenChannels == {1, DEFAULT_NCHANS}

GenRates == {399, 400, 416, 512}

GenBits == {16, 24, DEFAULT_BPS}

GenDurations == {2, 3, 4}

GenFreqs == {0, 1, DEFAULT_NFREQS}

GenArgs ==
    [c : GenChannels, r : GenRates, b : GenBits, d : GenDurations,
     f : GenFreqs]

\* Peaks in all the content read back from 16-bit data.
GarbageTones == 1

GarbageSpan == 1

(***************************************************************************)
(* The two programs before they start.                                     *)
(***************************************************************************)
Running == [exited |-> FALSE, status |-> 0]

Exited(n) == [exited |-> TRUE, status |-> n]

\* main's locals before its first statement.
AnalyzerLocals ==
    /\ a_wav = BlankAudio(0)
    /\ a_data_sz = SizeOfInt(Zero32)
    /\ a_heap = EmptyHeap
    /\ thresholds = <<>>
    /\ a_c = 0
    /\ a_i = Zero32
    /\ a_nwin = <<>>
    /\ efreqs = <<>>
    /\ a_out = <<>>
    /\ a_ret = -1
    /\ a_exit = Running

AnalyzerIdle ==
    /\ a_pc = "idle"
    /\ a_file = ShortFile
    /\ AnalyzerLocals

GeneratorIdle ==
    /\ g_pc = "idle"
    /\ g_wav = BlankAudio(0)
    /\ g_freqs = <<>>
    /\ g_c = [set |-> FALSE, val |-> 0]
    /\ g_heap = EmptyHeap
    /\ g_ret = -1
    /\ g_exit = Running

OthersIdle == AnalyzerIdle /\ GeneratorIdle

(***************************************************************************)
(* The planner run: fill_desired_freqs on every parameter set its callers  *)
(* can hand it.  The generator passes sample_rate >= 2 * MIN_FREQ          *)
(* (parse_args), the analyzer any sample rate > 0 the header carries.      *)
(***************************************************************************)
MaxChannels == 3

MaxFreqs == 4

RateSpan == 24

SampleRates ==
    {1, 2, 100, 398, 399} \cup (400..(400 + RateSpan))
        \cup {512, 1024, 8000, 44100, 48000, 96000, 2147483647}

PlannerInputs ==
    [channels : 1..MaxChannels,
     sample_rate : {U32(r) : r \in SampleRates},
     freqs_per_chan : 1..MaxFreqs]

\* The variables a run does not use keep these values.
PlannerIdle ==
    /\ p_pc = "idle"
    /\ p_wav = [channels |-> 1, sample_rate |-> U32(1), freqs_per_chan |-> 1]
    /\ p_freqs = ZeroMatrix(1, 1)
    /\ p_ret = 0

ListIdle ==
    /\ cfreqs = ZeroMatrix(1, MAX_FREQS_PER_CHAN)
    /\ ncfreqs = [c \in 0..0 |-> 0]
    /\ add_log = NoAdd
    /\ l_calls = 0

PlannerInit ==
    /\ ListIdle
    /\ OthersIdle
    /\ p_pc = "call"
    /\ p_wav \in PlannerInputs
    /\ p_freqs = ZeroMatrix(p_wav.channels, p_wav.freqs_per_chan)
    /\ p_ret = 0

PlannerCall ==
    /\ p_pc = "call"
    /\ LET r == fill_desired_freqs(p_freqs, p_wav)
       IN  /\ p_ret' = r.ret
           /\ p_freqs' = r.freqs
    /\ p_pc' = "done"
    /\ UNCHANGED <<p_wav, listVars, l_calls, analyzerVars, generatorVars>>

PlannerNext == PlannerCall

SpecPlanner == PlannerInit /\ [][PlannerNext]_vars

(***************************************************************************)
(* The list run: add_freq_to_list called over and over on one channel's    *)
(* initially empty list, as extract_frequencies does across the windows of *)
(* a scan.  The first ProbeCalls calls take any of ProbeFreqs (the ends of *)
(* the unsigned range and close neighbours); every call may take the next  *)
(* rung of a ladder of frequencies 3 Hz apart, which fills the list.       *)
(***************************************************************************)
ProbeCalls == 3

MaxCalls == 67

ProbeFreqs ==
    {Zero32, U32(1), U32(2), UINT_MAX, U32Sub(UINT_MAX, U32(1)),
     U32(500), U32(501), U32(502)}

LadderFreq(k) == U32(1000 + 3 * k)

ListInit ==
    /\ PlannerIdle
    /\ ListIdle
    /\ OthersIdle

ListAddProbe ==
    /\ l_calls < ProbeCalls
    /\ \E f \in ProbeFreqs : AddToChannel(0, f)
    /\ l_calls' = l_calls + 1
    /\ UNCHANGED <<plannerVars, analyzerVars, generatorVars>>

ListAddLadder ==
    /\ l_calls < MaxCalls
    /\ AddToChannel(0, LadderFreq(l_calls))
    /\ l_calls' = l_calls + 1
    /\ UNCHANGED <<plannerVars, analyzerVars, generatorVars>>

ListNext == ListAddProbe \/ ListAddLadder

SpecList == ListInit /\ [][ListNext]_vars

(***************************************************************************)
(* wav-analyzer.c: main, a step at a time.                                 *)
(***************************************************************************)
\* The analyzer runs; the rest stands still.
AnFrame == UNCHANGED <<plannerVars, l_calls, generatorVars>>

\* return n from main
AnReturn(n) ==
    /\ a_pc' = "exit"
    /\ a_exit' = Exited(n)

\* -f left out, or -f <val>
FOptions ==
    {[given |-> FALSE, val |-> 0]} \cup
    {[given |-> TRUE, val |-> v] : v \in 0..MaxFreqs}

\* Lines 293-295: parse_args.  -f is left out, or given with an int value.
AnParseArgs ==
    /\ a_pc = "parse_args"
    /\ \E opt \in FOptions :
         IF ~opt.given
         THEN /\ a_pc' = "read_header"
              /\ UNCHANGED <<a_wav, a_exit>>
         ELSE /\ a_wav' = [a_wav EXCEPT !.freqs_per_chan = opt.val]
              /\ IF opt.val <= 0
                 THEN AnReturn(-1)
                 ELSE a_pc' = "read_header" /\ UNCHANGED a_exit
    /\ UNCHANGED <<a_file, a_data_sz, a_heap, listVars, thresholds, a_c, a_i,
                   a_nwin, efreqs, a_out, a_ret>>
    /\ AnFrame

\* Lines 297-303: fread of the RIFF header.
AnReadHeader ==
    /\ a_pc = "read_header"
    /\ a_file.state # "pending"
    /\ IF a_file.state = "short"
       THEN AnReturn(-1)
       ELSE a_pc' = "extract" /\ UNCHANGED a_exit
    /\ UNCHANGED <<a_file, a_wav, a_data_sz, a_heap, listVars, thresholds, a_c,
                   a_i, a_nwin, efreqs, a_out, a_ret>>
    /\ AnFrame

\* Lines 305-308: data_sz = extract_audio_parameters(...);
\* if (data_sz <= 0) return 1;
AnExtractParams ==
    /\ a_pc = "extract"
    /\ LET r == extract_audio_parameters(a_file.hdr, a_wav)
       IN  /\ a_wav' = r.wav
           /\ a_data_sz' = SizeOfInt(r.ret)
           /\ IF SizeIsZero(SizeOfInt(r.ret))
              THEN AnReturn(1)
              ELSE a_pc' = "malloc_buf" /\ UNCHANGED a_exit
    /\ UNCHANGED <<a_file, a_heap, listVars, thresholds, a_c, a_i, a_nwin,
                   efreqs, a_out, a_ret>>
    /\ AnFrame

\* malloc cannot return a block of 2^32 bytes or more here: a request with
\* a non-zero upper word is a negative int sign-extended, above PTRDIFF_MAX.
MallocMaySucceed(sz) == sz.upper = Zero32

\* Lines 314-317: buf = malloc(data_sz); if (!buf) return -1;
AnMallocBuf ==
    /\ a_pc = "malloc_buf"
    /\ \E ok \in BOOLEAN :
         /\ ok => MallocMaySucceed(a_data_sz)
         /\ IF ok
            THEN /\ a_heap' = Alloc(a_heap, {<<"buf", -1>>})
                 /\ a_pc' = "fread_buf"
                 /\ UNCHANGED a_exit
            ELSE /\ AnReturn(-1)
                 /\ UNCHANGED a_heap
    /\ UNCHANGED <<a_file, a_wav, a_data_sz, listVars, thresholds, a_c, a_i,
                   a_nwin, efreqs, a_out, a_ret>>
    /\ AnFrame

\* Lines 319-323: fread of the sound data.
AnReadData ==
    /\ a_pc = "fread_buf"
    /\ a_pc' = IF a_file.data = "full" THEN "calloc_ncfreqs" ELSE "free_buf"
    /\ UNCHANGED <<a_file, a_wav, a_data_sz, a_heap, listVars, thresholds, a_c,
                   a_i, a_nwin, efreqs, a_out, a_ret, a_exit>>
    /\ AnFrame

\* Lines 326-328: ncfreqs = calloc(wav.channels, sizeof(unsigned int))
AnCallocNcfreqs ==
    /\ a_pc = "calloc_ncfreqs"
    /\ \E ok \in BOOLEAN :
         IF ok
         THEN /\ a_heap' = Alloc(a_heap, {<<"ncfreqs", -1>>})
              /\ ncfreqs' = [c \in 0..(a_wav.channels - 1) |-> 0]
              /\ a_pc' = "alloc_cfreqs"
         ELSE /\ a_pc' = "free_buf"
              /\ UNCHANGED <<a_heap, ncfreqs>>
    /\ UNCHANGED <<a_file, a_wav, a_data_sz, cfreqs, add_log, thresholds, a_c,
                   a_i, a_nwin, efreqs, a_out, a_ret, a_exit>>
    /\ AnFrame

\* Lines 330-333: cfreqs = alloc_matrix(wav.channels, MAX_FREQS_PER_CHAN, ...)
AnAllocCfreqs ==
    /\ a_pc = "alloc_cfreqs"
    /\ \E fail_at \in (-1)..a_wav.channels :
         LET r == alloc_matrix(a_heap, "cfreqs", a_wav.channels, fail_at)
         IN  /\ a_heap' = r.heap
             /\ IF r.ok
                THEN /\ cfreqs' = ZeroMatrix(a_wav.channels, MAX_FREQS_PER_CHAN)
                     /\ a_pc' = "calloc_thresholds"
                ELSE /\ a_pc' = "free_ncfreqs"
                     /\ UNCHANGED cfreqs
    /\ UNCHANGED <<a_file, a_wav, a_data_sz, ncfreqs, add_log, thresholds, a_c,
                   a_i, a_nwin, efreqs, a_out, a_ret, a_exit>>
    /\ AnFrame

\* Lines 335-337: thresholds = calloc(wav.channels, sizeof(double))
AnCallocThresholds ==
    /\ a_pc = "calloc_thresholds"
    /\ \E ok \in BOOLEAN :
         IF ok
         THEN /\ a_heap' = Alloc(a_heap, {<<"thresholds", -1>>})
              /\ thresholds' = [c \in 0..(a_wav.channels - 1) |-> 0]
              /\ a_pc' = "malloc_wave"
         ELSE /\ a_pc' = "free_cfreqs"
              /\ UNCHANGED <<a_heap, thresholds>>
    /\ UNCHANGED <<a_file, a_wav, a_data_sz, listVars, a_c, a_i, a_nwin, efreqs,
                   a_out, a_ret, a_exit>>
    /\ AnFrame

\* Lines 346-353: wave = malloc(...); offset, slide, windows_sz; c = 0
AnMallocWave ==
    /\ a_pc = "malloc_wave"
    /\ \E ok \in BOOLEAN :
         IF ok
         THEN /\ a_heap' = Alloc(a_heap, {<<"wave", -1>>})
              /\ a_c' = 0
              /\ a_nwin' = [c \in 0..(a_wav.channels - 1) |-> 0]
              /\ a_pc' = "scan_channel"
         ELSE /\ a_pc' = "free_thresholds"
              /\ UNCHANGED <<a_heap, a_c, a_nwin>>
    /\ UNCHANGED <<a_file, a_wav, a_data_sz, listVars, thresholds, a_i, efreqs,
                   a_out, a_ret, a_exit>>
    /\ AnFrame

\* Lines 353-355: c < wav.channels; extract_channel(wave, buf, c, &wav);
\* i = offset
AnScanChannel ==
    /\ a_pc = "scan_channel"
    /\ IF a_c < a_wav.channels
       THEN /\ a_i' = Offset(a_wav)
            /\ a_pc' = "scan_window"
       ELSE /\ a_pc' = "report"
            /\ UNCHANGED a_i
    /\ UNCHANGED <<a_file, a_wav, a_data_sz, a_heap, listVars, thresholds, a_c,
                   a_nwin, efreqs, a_out, a_ret, a_exit>>
    /\ AnFrame

\* i + windows_sz < wav.samples_per_chan - offset
WindowFits(i, w) ==
    U32Lt(U32Add(i, WindowsSz(w)), U32Sub(w.samples_per_chan, Offset(w)))

\* Lines 358-360: one turn of the sliding-window loop.
AnWindow ==
    /\ a_pc = "scan_window"
    /\ WindowFits(a_i, a_wav)
    /\ LET r == extract_frequencies(cfreqs[a_c], ncfreqs[a_c],
                                    WindowSpectrum(a_file, a_c, a_nwin[a_c]),
                                    WindowsSz(a_wav), thresholds[a_c], a_wav)
       IN  /\ cfreqs' = [cfreqs EXCEPT ![a_c] = r.freqs]
           /\ ncfreqs' = [ncfreqs EXCEPT ![a_c] = r.nfreqs]
           /\ thresholds' = [thresholds EXCEPT ![a_c] = r.max_thresh]
    /\ a_i' = U32Add(a_i, Slide(a_wav))
    /\ a_nwin' = [a_nwin EXCEPT ![a_c] = @ + 1]
    /\ UNCHANGED <<a_pc, a_file, a_wav, a_data_sz, a_heap, add_log, a_c, efreqs,
                   a_out, a_ret, a_exit>>
    /\ AnFrame

\* The window loop ends; c++.
AnChannelDone ==
    /\ a_pc = "scan_window"
    /\ ~WindowFits(a_i, a_wav)
    /\ a_c' = a_c + 1
    /\ a_pc' = "scan_channel"
    /\ UNCHANGED <<a_file, a_wav, a_data_sz, a_heap, listVars, thresholds, a_i,
                   a_nwin, efreqs, a_out, a_ret, a_exit>>
    /\ AnFrame

\* What lines 365-372 print.
RECURSIVE FoundReport(_)
FoundReport(c) ==
    IF c >= a_wav.channels
    THEN <<>>
    ELSE <<[kind |-> "channel", c |-> c, threshold |-> thresholds[c],
            empty |-> (ncfreqs[c] = 0)]>>
         \o FoundLines(cfreqs[c], ncfreqs[c], 0) \o FoundReport(c + 1)

\* Lines 363-376: no comparison was asked for.
AnPrintFound ==
    /\ a_pc = "report"
    /\ a_wav.freqs_per_chan = 0
    /\ a_out' = FoundReport(0)
    /\ a_ret' = 0
    /\ a_pc' = "free_wave"
    /\ UNCHANGED <<a_file, a_wav, a_data_sz, a_heap, listVars, thresholds, a_c,
                   a_i, a_nwin, efreqs, a_exit>>
    /\ AnFrame

\* Lines 378-382: efreqs = alloc_matrix(wav.channels, wav.freqs_per_chan, ...)
AnAllocEfreqs ==
    /\ a_pc = "report"
    /\ a_wav.freqs_per_chan # 0
    /\ \E fail_at \in (-1)..a_wav.channels :
         LET r == alloc_matrix(a_heap, "efreqs", a_wav.channels, fail_at)
         IN  /\ a_heap' = r.heap
             /\ IF r.ok
                THEN /\ efreqs' = ZeroMatrix(a_wav.channels, a_wav.freqs_per_chan)
                     /\ a_pc' = "fill_efreqs"
                ELSE /\ a_pc' = "free_wave"
                     /\ UNCHANGED efreqs
    /\ UNCHANGED <<a_file, a_wav, a_data_sz, listVars, thresholds, a_c, a_i,
                   a_nwin, a_out, a_ret, a_exit>>
    /\ AnFrame

\* Lines 384-385: if (fill_desired_freqs(efreqs, &wav)) goto free_efreqs;
AnFillDesired ==
    /\ a_pc = "fill_efreqs"
    /\ LET r == fill_desired_freqs(efreqs, a_wav)
       IN  /\ efreqs' = r.freqs
           /\ a_pc' = IF r.ret # 0 THEN "free_efreqs" ELSE "compare"
    /\ UNCHANGED <<a_file, a_wav, a_data_sz, a_heap, listVars, thresholds, a_c,
                   a_i, a_nwin, a_out, a_ret, a_exit>>
    /\ AnFrame

\* What lines 388-418 print.
RECURSIVE CompareReport(_)
CompareReport(c) ==
    IF c >= a_wav.channels
    THEN <<>>
    ELSE <<[kind |-> "channel", c |-> c, threshold |-> thresholds[c],
            empty |-> (ncfreqs[c] = 0)]>>
         \o CompareChannel(cfreqs[c], ncfreqs[c], efreqs[c],
                           a_wav.freqs_per_chan)
         \o CompareReport(c + 1)

\* Lines 387-421: the comparison; ret = 0.
AnCompare ==
    /\ a_pc = "compare"
    /\ a_out' = CompareReport(0)
    /\ a_ret' = 0
    /\ a_pc' = "free_efreqs"
    /\ UNCHANGED <<a_file, a_wav, a_data_sz, a_heap, listVars, thresholds, a_c,
                   a_i, a_nwin, efreqs, a_exit>>
    /\ AnFrame

\* The labels at the end of main, in order, and what each frees.
AnLabels ==
    <<"free_efreqs", "free_wave", "free_thresholds", "free_cfreqs",
      "free_ncfreqs", "free_buf">>

AnFreeAt(h, label) ==
    CASE label = "free_efreqs" ->
             Free(free_array(h, "efreqs", a_wav.channels), {<<"efreqs", -1>>})
      [] label = "free_wave" -> Free(h, {<<"wave", -1>>})
      [] label = "free_thresholds" -> Free(h, {<<"thresholds", -1>>})
      [] label = "free_cfreqs" ->
             Free(free_array(h, "cfreqs", a_wav.channels), {<<"cfreqs", -1>>})
      [] label = "free_ncfreqs" -> Free(h, {<<"ncfreqs", -1>>})
      [] label = "free_buf" -> Free(h, {<<"buf", -1>>})

\* The heap after falling through the labels from the k-th one to the end.
RECURSIVE AnFallThrough(_, _)
AnFallThrough(h, k) ==
    IF k > Len(AnLabels) THEN h
    ELSE AnFallThrough(AnFreeAt(h, AnLabels[k]), k + 1)

\* Lines 422-437: from the label reached to return ret.
AnUnwind ==
    /\ \E k \in 1..Len(AnLabels) :
         /\ a_pc = AnLabels[k]
         /\ a_heap' = AnFallThrough(a_heap, k)
    /\ AnReturn(a_ret)
    /\ UNCHANGED <<a_file, a_wav, a_data_sz, listVars, thresholds, a_c, a_i,
                   a_nwin, efreqs, a_out, a_ret>>
    /\ AnFrame

AnalyzerNext ==
    \/ AnParseArgs
    \/ AnReadHeader
    \/ AnExtractParams
    \/ AnMallocBuf
    \/ AnReadData
    \/ AnCallocNcfreqs
    \/ AnAllocCfreqs
    \/ AnCallocThresholds
    \/ AnMallocWave
    \/ AnScanChannel
    \/ AnWindow
    \/ AnChannelDone
    \/ AnPrintFound
    \/ AnAllocEfreqs
    \/ AnFillDesired
    \/ AnCompare
    \/ AnUnwind

(***************************************************************************)
(* The analyzer run: wav-analyzer on any file of ArbitraryFiles.           *)
(***************************************************************************)
\* Peaks in all the content of a file.
MaxTones == 2

ArbChannels == {0, 1, 2}

ArbRates == {Zero32, U32(100), U32(416)}

ArbBits == {8, 16, 24, 32}

ArbSizes == {Zero32, U32(5), U32(1200), U32(4992), <<32768, 0>>, UINT_MAX}

ArbHeaders ==
    [channels : ArbChannels, samples_per_sec : ArbRates,
     bits_per_sample : ArbBits, chunk_size : ArbSizes]

SilentContent(nchan) ==
    [c \in 0..(nchan - 1) |-> [k \in 1..ContentPeriod |-> <<>>]]

\* A header the decoder turns down needs no content.
ArbContents(hdr) ==
    IF extract_audio_parameters(hdr, BlankAudio(0)).ret = MinusOne
    THEN {SilentContent(hdr.channels)}
    ELSE Contents(hdr.channels, HeaderBins(hdr), MaxTones)

ArbitraryFiles ==
    {ShortFile} \cup
    UNION {[state : {"ok"}, hdr : {h}, data : {"full", "short"},
            content : ArbContents(h)] : h \in ArbHeaders}

AnalyzerInit ==
    /\ PlannerIdle
    /\ l_calls = 0
    /\ GeneratorIdle
    /\ a_pc = "parse_args"
    /\ a_file \in ArbitraryFiles
    /\ AnalyzerLocals
    /\ cfreqs = <<>>
    /\ ncfreqs = <<>>
    /\ add_log = NoAdd

SpecAnalyzer == AnalyzerInit /\ [][AnalyzerNext]_vars

(***************************************************************************)
(* wav-generator.c: main, a step at a time.  Its standard output is the    *)
(* analyzer's standard input (a_file).                                     *)
(***************************************************************************)
\* The generator runs; the analyzer, but for its input, stands still.
GenFrame ==
    UNCHANGED <<plannerVars, listVars, l_calls, a_pc, a_wav, a_data_sz,
                a_heap, thresholds, a_c, a_i, a_nwin, efreqs, a_out, a_ret,
                a_exit>>

\* return n from main; a pipe nothing was written to reads as a short file.
GenReturn(n) ==
    /\ g_pc' = "exit"
    /\ g_exit' = Exited(n)
    /\ a_file' = IF a_file.state = "pending" THEN ShortFile ELSE a_file

\* Lines 201-203: if (parse_args(argc, argv, &wav)) return -1;
GenParseArgs ==
    /\ g_pc = "parse_args"
    /\ \E args \in GenArgs :
         LET r == gen_parse_args(args)
         IN  /\ g_wav' = r.wav
             /\ IF r.ret # 0
                THEN GenReturn(-1)
                ELSE g_pc' = "alloc_freqs" /\ UNCHANGED <<g_exit, a_file>>
    /\ UNCHANGED <<g_freqs, g_c, g_heap, g_ret>>
    /\ GenFrame

\* Lines 216-219: freqs = alloc_matrix(wav.channels, wav.freqs_per_chan, ...);
\* if (!freqs) return -1;
GenAllocFreqs ==
    /\ g_pc = "alloc_freqs"
    /\ \E fail_at \in (-1)..g_wav.channels :
         LET r == alloc_matrix(g_heap, "freqs", g_wav.channels, fail_at)
         IN  /\ g_heap' = r.heap
             /\ IF r.ok
                THEN /\ g_freqs' = ZeroMatrix(g_wav.channels,
                                              g_wav.freqs_per_chan)
                     /\ g_pc' = "fill_freqs"
                     /\ UNCHANGED <<g_exit, a_file>>
                ELSE /\ GenReturn(-1)
                     /\ UNCHANGED g_freqs
    /\ UNCHANGED <<g_wav, g_c, g_ret>>
    /\ GenFrame

\* Lines 221-222: if (fill_desired_freqs(freqs, &wav)) return -1;
GenFillFreqs ==
    /\ g_pc = "fill_freqs"
    /\ LET r == fill_desired_freqs(g_freqs, g_wav)
       IN  /\ g_freqs' = r.freqs
           /\ IF r.ret # 0
              THEN GenReturn(-1)
              ELSE g_pc' = "alloc_waves" /\ UNCHANGED <<g_exit, a_file>>
    /\ UNCHANGED <<g_wav, g_c, g_heap, g_ret>>
    /\ GenFrame

\* Lines 227-230: waves = alloc_matrix(wav.channels, wav.samples_per_chan,
\* ...); if (!waves) goto free_freqs;
GenAllocWaves ==
    /\ g_pc = "alloc_waves"
    /\ \E fail_at \in (-1)..g_wav.channels :
         LET r == alloc_matrix(g_heap, "waves", g_wav.channels, fail_at)
         IN  /\ g_heap' = r.heap
             /\ g_pc' = IF r.ok THEN "fill_waves" ELSE "free_freqs"
    /\ UNCHANGED <<g_wav, g_freqs, g_c, g_ret, g_exit, a_file>>
    /\ GenFrame

\* Lines 232-233: for (c = 0; c < wav.channels; c++) fill_audio_wave(...)
GenFillWaves ==
    /\ g_pc = "fill_waves"
    /\ g_c' = [set |-> TRUE, val |-> g_wav.channels]
    /\ g_pc' = "calloc_buf"
    /\ UNCHANGED <<g_wav, g_freqs, g_heap, g_ret, g_exit, a_file>>
    /\ GenFrame

\* Lines 236-239: buf = calloc(data_sz, 1); if (!buf) goto free_waves;
GenAllocBuf ==
    /\ g_pc = "calloc_buf"
    /\ \E ok \in BOOLEAN :
         IF ok
         THEN /\ g_heap' = Alloc(g_heap, {<<"buf", -1>>})
              /\ g_pc' = "write"
         ELSE /\ g_pc' = "free_waves"
              /\ UNCHANGED g_heap
    /\ UNCHANGED <<g_wav, g_freqs, g_c, g_ret, g_exit, a_file>>
    /\ GenFrame

\* What the analyzer's transform finds in the windows of the data written.
\* At 32 bits it reads back the samples written: steady tones at the planned
\* frequencies.  At 16 bits it reads pairs of samples as one int32_t: any
\* content with at most GarbageTones peaks in the lowest GarbageSpan bins,
\* or with one peak of any level in the lowest bin of every window.
WrittenContents(w, freqs) ==
    IF w.bits_per_sample = 32
    THEN {[c \in 0..(w.channels - 1) |->
             [k \in 1..ContentPeriod |->
                 IdealSpectrum(freqs[c], WindowsSz(w), w.sample_rate)]]}
    ELSE LET first == Val(FirstBin(WindowsSz(w), w))
         IN  Contents(w.channels,
                      HeaderBins(GenHeader(w)) \cap
                          (first..(first + GarbageSpan - 1)),
                      GarbageTones)
             \cup LevelContents(w.channels, first)

\* Lines 241-251: fill_audio_buf, the two fwrite, ret = 0, free(buf).
GenWrite ==
    /\ g_pc = "write"
    /\ \E content \in WrittenContents(g_wav, g_freqs) :
         a_file' = [state |-> "ok", hdr |-> GenHeader(g_wav),
                    data |-> "full", content |-> content]
    /\ g_ret' = 0
    /\ g_heap' = Free(g_heap, {<<"buf", -1>>})
    /\ g_pc' = "free_waves"
    /\ UNCHANGED <<g_wav, g_freqs, g_c, g_exit>>
    /\ GenFrame

\* The values c can hold where a label reads it: the one the wave loop
\* left, or any value when the loop was jumped over.
GenRowCounts ==
    IF g_c.set THEN {g_c.val} ELSE 0..(g_wav.channels + 1)

\* Lines 252-254: free_waves: free_array(waves, c); free(waves);
GenFreeWaves ==
    /\ g_pc = "free_waves"
    /\ \E n \in GenRowCounts :
         g_heap' = Free(free_array(g_heap, "waves", n), {<<"waves", -1>>})
    /\ g_pc' = "free_freqs"
    /\ UNCHANGED <<g_wav, g_freqs, g_c, g_ret, g_exit, a_file>>
    /\ GenFrame

\* Lines 255-259: free_freqs: free_array(freqs, c); free(freqs); return ret;
GenFreeFreqs ==
    /\ g_pc = "free_freqs"
    /\ \E n \in GenRowCounts :
         g_heap' = Free(free_array(g_heap, "freqs", n), {<<"freqs", -1>>})
    /\ GenReturn(g_ret)
    /\ UNCHANGED <<g_wav, g_freqs, g_c, g_ret>>
    /\ GenFrame

GeneratorNext ==
    \/ GenParseArgs
    \/ GenAllocFreqs
    \/ GenFillFreqs
    \/ GenAllocWaves
    \/ GenFillWaves
    \/ GenAllocBuf
    \/ GenWrite
    \/ GenFreeWaves
    \/ GenFreeFreqs

(***************************************************************************)
(* The pipe run: wav-generator <options> | wav-analyzer [-f <n>]           *)
(***************************************************************************)
PipeInit ==
    /\ PlannerIdle
    /\ l_calls = 0
    /\ cfreqs = <<>>
    /\ ncfreqs = <<>>
    /\ add_log = NoAdd
    /\ g_pc = "parse_args"
    /\ g_wav = BlankAudio(0)
    /\ g_freqs = <<>>
    /\ g_c = [set |-> FALSE, val |-> 0]
    /\ g_heap = EmptyHeap
    /\ g_ret = -1
    /\ g_exit = Running
    /\ a_pc = "parse_args"
    /\ a_file = PendingFile
    /\ AnalyzerLocals

PipeNext == GeneratorNext \/ AnalyzerNext

SpecPipe == PipeInit /\ [][PipeNext]_vars

(***************************************************************************)
(* Claims about the frequency planner (checked under SpecPlanner).         *)
(***************************************************************************)
PlanDone == p_pc = "done"

PlanSucceeded == PlanDone /\ p_ret = 0

\* f lies in [MIN_FREQ, sample_rate / 2).
InBand(f, wav) ==
    /\ U32Le(U32(MIN_FREQ), f)
    /\ U32Lt(f, U32Div(wav.sample_rate, U32(2)))

\* The band cannot hold the plan: sample_rate / 2 - MIN_FREQ, taken in the
\* integers (no wrap), divided by the tone count or then by channels + 1,
\* is not positive.
RoundsToZero(wav) ==
    LET band == (Val(wav.sample_rate) \div 2) - MIN_FREQ
    IN  \/ band <= 0
        \/ band \div wav.freqs_per_chan = 0
        \/ (band \div wav.freqs_per_chan) \div (wav.channels + 1) = 0

\* C1: when fill_desired_freqs returns 0, every channel holds exactly
\* freqs_per_chan frequencies, strictly ascending in the tone index, each in
\* [MIN_FREQ, sample_rate / 2).
C1_PlanAscendingInBand ==
    PlanSucceeded =>
        \A c \in 0..(p_wav.channels - 1) :
            /\ DOMAIN p_freqs[c] = 0..(p_wav.freqs_per_chan - 1)
            /\ \A i \in DOMAIN p_freqs[c] : InBand(p_freqs[c][i], p_wav)
            /\ \A i \in DOMAIN p_freqs[c] :
                   (i + 1) \in DOMAIN p_freqs[c] =>
                       U32Lt(p_freqs[c][i], p_freqs[c][i + 1])

\* C2: whenever the plan does not fit the band (a spacing rounds to 0, or
\* sample_rate / 2 <= MIN_FREQ), fill_desired_freqs returns -1 and writes no
\* frequency.
C2_NoBandwidthFails ==
    (PlanDone /\ RoundsToZero(p_wav)) =>
        /\ p_ret = -1
        /\ p_freqs = ZeroMatrix(p_wav.channels, p_wav.freqs_per_chan)

\* C3: when fill_desired_freqs returns 0 with more than one channel, no
\* frequency of one channel equals any frequency of another channel.
C3_ChannelsDisjoint ==
    (PlanSucceeded /\ p_wav.channels > 1) =>
        \A c1, c2 \in 0..(p_wav.channels - 1) :
            c1 # c2 =>
                \A i1, i2 \in 0..(p_wav.freqs_per_chan - 1) :
                    p_freqs[c1][i1] # p_freqs[c2][i2]

\* A successful plan for several channels and several tones, one of them made
\* with the wrapped band (sample_rate / 2 < MIN_FREQ).
C3_Witness ==
    /\ PlanSucceeded
    /\ p_wav.channels > 1
    /\ p_wav.freqs_per_chan > 1
    /\ p_freqs[1][0] # Zero32

(***************************************************************************)
(* Claims about the detected-frequency list (checked under SpecList).      *)
(***************************************************************************)
\* |a - b| <= 1 Hz, in the integers.
Within1Hz(a, b) ==
    \/ a = b
    \/ (a # UINT_MAX /\ U32Add(a, U32(1)) = b)
    \/ (b # UINT_MAX /\ U32Add(b, U32(1)) = a)

\* The entries in use of channel c's list.
Detected(c) == {cfreqs[c][k] : k \in {j \in 0..(MAX_FREQS_PER_CHAN - 1) : j < ncfreqs[c]}}

\* C9: after any sequence of add_freq_to_list calls on an initially empty
\* list, no two entries are within FREQ_ACCURACY = 1 Hz of each other, and a
\* frequency is appended only when no entry was within 1 Hz of it.
C9_NoNearDuplicates ==
    /\ \A i, j \in 0..(MAX_FREQS_PER_CHAN - 1) :
           (i < j /\ j < ncfreqs[0]) => ~Within1Hz(cfreqs[0][i], cfreqs[0][j])
    /\ (add_log.called /\ ncfreqs[add_log.chan] > add_log.before) =>
           \A k \in 0..(MAX_FREQS_PER_CHAN - 1) :
               k < add_log.before =>
                   ~Within1Hz(cfreqs[add_log.chan][k], add_log.frequency)

\* C10: the list holds up to MAX_FREQS_PER_CHAN = 64 entries: the count never
\* exceeds 64, a detection is dropped for lack of room only when the list
\* already holds 64 entries, and a dropped detection leaves the count as it
\* was.
C10_CapacityIs64 ==
    /\ ncfreqs[0] <= MAX_FREQS_PER_CHAN
    /\ (add_log.called /\ add_log.full) =>
           /\ add_log.before = MAX_FREQS_PER_CHAN
           /\ ncfreqs[add_log.chan] = add_log.before

(***************************************************************************)
(* Claims about the analyzer's report and its header decoding (checked     *)
(* under SpecAnalyzer).                                                    *)
(***************************************************************************)
\* The comparison of lines 387-421 was printed.
Compared == a_wav.freqs_per_chan > 0 /\ a_out # <<>>

\* The channel the p-th line of the report belongs to.
ChannelOf(p) ==
    LET heads == {q \in 1..p : a_out[q].kind = "channel"}
    IN  a_out[CHOOSE q \in heads : \A r \in heads : r <= q].c

\* The first entry of channel c's detected list within 1 Hz of e.
FirstMatches(c, e) ==
    LET near == {k \in 0..(MAX_FREQS_PER_CHAN - 1) :
                    k < ncfreqs[c] /\ Within1Hz(cfreqs[c][k], e)}
    IN  {cfreqs[c][k] : k \in {j \in near : \A q \in near : j <= q}}

\* C4: in comparison mode, the delta printed for an expected frequency e
\* reported as matched is d - e, d being the first entry of the channel's
\* detected list within 1 Hz of e, wherever that entry sits in the list.
C4_DeltaIsFirstMatchMinusExpected ==
    Compared =>
        \A p \in 1..Len(a_out) :
            (a_out[p].kind = "expected" /\ a_out[p].ok) =>
                \E d \in FirstMatches(ChannelOf(p), a_out[p].freq) :
                    a_out[p].diff = U32Sub(d, a_out[p].freq)

\* The expected frequencies of channel c.
Expected(c) == {efreqs[c][i] : i \in 0..(a_wav.freqs_per_chan - 1)}

\* C5: in comparison mode, every detected frequency of a channel that is
\* within 1 Hz of none of the channel's expected frequencies is reported as
\* spurious, however many expected frequencies matched.
C5_EveryUnexpectedIsSpurious ==
    Compared =>
        \A c \in 0..(a_wav.channels - 1) :
            \A d \in Detected(c) :
                (\A e \in Expected(c) : ~Within1Hz(d, e)) =>
                    \E p \in 1..Len(a_out) :
                        /\ a_out[p].kind = "spurious"
                        /\ a_out[p].freq = d
                        /\ ChannelOf(p) = c

\* The header breaks a decode rule: no channel, no sample rate, no data, a
\* data length that is no multiple of the channel count, a sample width
\* other than 16, 24 or 32 bits, or less than MIN_DURATION seconds.
ViolatesDecodeRule(hdr) ==
    \/ hdr.channels = 0
    \/ hdr.samples_per_sec = Zero32
    \/ hdr.chunk_size = Zero32
    \/ U32Mod(hdr.chunk_size, U32(hdr.channels)) # Zero32
    \/ hdr.bits_per_sample \notin {16, 24, 32}
    \/ U32Lt(U32Div(U32Div(U32Div(hdr.chunk_size, U32(hdr.channels)),
                           U32(hdr.bits_per_sample \div 8)),
                    hdr.samples_per_sec),
             U32(MIN_DURATION))

\* The header was read and handed to extract_audio_parameters.
Decoded ==
    a_file.state = "ok" /\ a_pc \notin {"parse_args", "read_header", "extract"}

\* C6: on a header that breaks a decode rule the analyzer stops at the
\* decode step: past it, main has returned a non-zero status, with nothing
\* allocated, no window scanned and no report written.
C6_BadHeaderStopsAtDecode ==
    (Decoded /\ ViolatesDecodeRule(a_file.hdr)) =>
        /\ a_pc = "exit"
        /\ a_exit.exited
        /\ a_exit.status # 0
        /\ a_heap = EmptyHeap
        /\ a_nwin = <<>>
        /\ a_out = <<>>

(***************************************************************************)
(* Claims about the generator feeding the analyzer and about the heaps of  *)
(* the two programs (checked under SpecPipe).                              *)
(***************************************************************************)
\* The analyzer scanned every channel of a file the generator wrote at 32
\* bits per sample.
ScannedGenerated32 ==
    /\ g_wav.bits_per_sample = 32
    /\ a_file.state = "ok"
    /\ a_pc = "report"

\* C7: round trip.  After the scan of a 32-bit file the generator wrote, at
\* least one window of every channel was analyzed and every planned
\* frequency of every channel has a detected frequency within 1 Hz.
C7_RoundTripRecoversPlan ==
    ScannedGenerated32 =>
        \A c \in 0..(g_wav.channels - 1) :
            /\ a_nwin[c] >= 1
            /\ \A i \in 0..(g_wav.freqs_per_chan - 1) :
                   \E d \in Detected(c) : Within1Hz(d, g_freqs[c][i])

\* C8: when either main has returned, every block it allocated was freed
\* exactly once: none is left on its heap and no free() was handed a block
\* that was not live.
C8_EveryExitReleasesAll ==
    /\ g_exit.exited => g_heap = EmptyHeap
    /\ a_exit.exited => a_heap = EmptyHeap

(***************************************************************************)
(* Claims about the scan geometry (checked under SpecAnalyzer).            *)
(***************************************************************************)
\* i at the k-th turn (k = 0, 1, ...) of the window loop: i = offset, then
\* i += slide.
WindowStart(w, k) == U32Add(Offset(w), U32MulSmall(Slide(w), k))

\* The window loop of channel a_c has ended.
ChannelScanned == a_pc = "scan_window" /\ ~WindowFits(a_i, a_wav)

\* The sample indices of [sample_rate/2, samples_per_chan - sample_rate/2).
InRangeSamples(w) ==
    {s \in Val(Offset(w))..(Val(w.samples_per_chan) - 1) :
        s < Val(w.samples_per_chan) - Val(Offset(w))}

\* The windows, among the first n passed to extract_frequencies, that hold
\* sample s.
WindowsHolding(w, n, s) ==
    {k \in 0..(n - 1) :
        /\ Val(WindowStart(w, k)) <= s
        /\ s < Val(WindowStart(w, k)) + Val(WindowsSz(w))}

\* C11: the scan of an accepted file starts at sample_rate/2, advances by
\* slide = next_pow_2(sample_rate/2) with windows of 2 * slide samples, and
\* when the scan of a channel has ended every sample index of
\* [sample_rate/2, samples_per_chan - sample_rate/2) lies in at least two
\* of the windows it passed to extract_frequencies.
C11_InRangeCoveredTwice ==
    ChannelScanned =>
        /\ a_i = WindowStart(a_wav, a_nwin[a_c])
        /\ \A s \in InRangeSamples(a_wav) :
               Cardinality(WindowsHolding(a_wav, a_nwin[a_c], s)) >= 2

(***************************************************************************)
(* Claims about the per-channel threshold (checked under SpecPipe).        *)
(***************************************************************************)
\* maximum / 2 on the k-th window scanned for channel c.
WindowThreshold(c, k) ==
    Maximum(WindowSpectrum(a_file, c, k), WindowsSz(a_wav), a_wav) \div 2

\* The thresholds at or over the noise floor among the first n windows of
\* channel c.
UsedThresholds(c, n) ==
    {WindowThreshold(c, k) : k \in {j \in 0..(n - 1) :
                                      WindowThreshold(c, j) >= POWER_NOISE_LEVEL}}

\* The largest of a set of naturals, 0 for the empty set.
Largest(S) == CHOOSE m \in S \cup {0} : \A q \in S \cup {0} : q <= m

\* Throughout the scan, the threshold of every channel is the largest used
\* threshold of the windows scanned so far (0 before the first).
ThresholdIsRunningMaximum ==
    \A c \in DOMAIN thresholds :
        /\ c \in DOMAIN a_nwin => thresholds[c] = Largest(UsedThresholds(c, a_nwin[c]))
        /\ c \notin DOMAIN a_nwin => thresholds[c] = 0

\* A step that scans a window of channel a_c never lowers the channel's
\* threshold, and when the window's threshold is under the noise floor it
\* leaves the threshold, the list and its count as they were.
WindowStepKeepsThreshold ==
    (a_pc = "scan_window" /\ a_nwin' # a_nwin) =>
        /\ thresholds'[a_c] >= thresholds[a_c]
        /\ WindowThreshold(a_c, a_nwin[a_c]) < POWER_NOISE_LEVEL =>
               /\ thresholds' = thresholds
               /\ cfreqs' = cfreqs
               /\ ncfreqs' = ncfreqs

\* C12: a channel's threshold starts at 0, never decreases, and after each
\* window equals the maximum of maximum/2 over the windows so far whose
\* threshold was >= POWER_NOISE_LEVEL; a window under the noise floor
\* adds no frequency and leaves the threshold unchanged.
C12_ThresholdIsRunningMaximum ==
    /\ []ThresholdIsRunningMaximum
    /\ [][WindowStepKeepsThreshold]_vars

\* C12 witness: a channel whose last scanned window had a threshold over
\* the noise floor but lower than the one an earlier window left.
C12_Witness ==
    \E c \in DOMAIN a_nwin :
        /\ a_nwin[c] >= 2
        /\ WindowThreshold(c, a_nwin[c] - 1) >= POWER_NOISE_LEVEL
        /\ thresholds[c] > WindowThreshold(c, a_nwin[c] - 1)

(***************************************************************************)
(* Claims about the buffer accesses of the scan (checked under             *)
(* SpecAnalyzer).                                                          *)
(***************************************************************************)
\* get_sample: the index into the int32_t view of buf,
\* buf[(channels * sample) + chan]
SampleIndex(chan, channels, sample) == (channels * sample) + chan

\* The bytes of buf that get_sample reads for that index: an int32_t.
SampleBytes(chan, channels, sample) ==
    LET at == 4 * SampleIndex(chan, channels, sample)
    IN  at..(at + 3)

\* The bytes of the buffer malloc(data_sz) returned and fread filled.
BufferBytes == 0..(Val(a_data_sz.lower) - 1)

\* extract_channel has just filled wave from channel a_c of buf, or a
\* window of it is about to be handed to extract_frequencies.
ChannelExtracted == a_pc = "scan_window"

\* C13: on an accepted header every access of the scan is in bounds:
\* extract_channel reads each sample s < samples_per_chan of the channel
\* from bytes of the data_sz-byte buffer, and every window
\* [i, i + windows_sz) handed to extract_frequencies lies inside the
\* samples_per_chan-element wave.
C13_ScanAccessesInBounds ==
    ChannelExtracted =>
        /\ \A s \in 0..(Val(a_wav.samples_per_chan) - 1) :
               SampleBytes(a_c, a_wav.channels, s) \subseteq BufferBytes
        /\ WindowFits(a_i, a_wav) =>
               Val(a_i) + Val(WindowsSz(a_wav)) <= Val(a_wav.samples_per_chan)

====
